---- MODULE Spec2Model ----
(***************************************************************************)
(* rentaflow-pro: a car-rental storefront.  The remote store (tables,      *)
(* constraints and row-level-security policies of the SQL migration) and   *)
(* the four views that talk to it (catalog, car detail / booking,          *)
(* bookings, admin) as one state machine.  A request is a message that is  *)
(* first sent by a view (phase "req"), then executed by the store (phase   *)
(* "resp") and finally handled by the continuation of the handler that     *)
(* awaited it.                                                             *)
(***************************************************************************)
EXTENDS Integers, Sequences, FiniteSets, TLC

\* ------------------------------------------------------------------ bounds
MaxDay == 3          \* calendar days 0..MaxDay can be picked
FallBackDay == 2     \* the day of the horizon that lasts 25 hours (DST ends)
MaxReq == 2          \* requests the public views issue in one behaviour
MaxAdminReq == 5     \* requests the admin view issues in one behaviour
MaxAuth == 1         \* sign-in / sign-out events in one behaviour
MaxDirect == 3       \* requests other clients send straight to the store
MaxClock == 4        \* rows ever created (ids and created_at come from it)

\* --------------------------------------------------------------- constants
HoursPerDay == 24    \* 1000 * 60 * 60 * 24 ms, counted in hours

NoSession == "none"
Users == {"u1", "u2", "adm"}
NoDate == -1
Days == 0..MaxDay
CarTypes == {"sedan", "suv", "luxury", "sports", "van", "electric"}
CarStatuses == {"available", "rented", "maintenance"}
BookingStatuses == {"pending", "confirmed", "active", "completed", "cancelled"}
AppRoles == {"admin", "user"}
Prices == {50, 75}

VARIABLES
  user_roles,   \* table user_roles: set of [user_id, role]
  cars,         \* table cars: set of rows
  bookings,     \* table bookings: set of rows
  clock,        \* source of gen_random_uuid() and now()
  auth_users,   \* table auth.users: the identities that signed up
  profiles,     \* table profiles: set of [id, full_name, created_at]
  authUid,      \* the browser's current session (auth.uid() of its requests)
  nauth,        \* sign-in / sign-out events so far
  net,          \* requests in flight
  nreq,         \* requests issued so far
  toast,        \* the last notification shown
  reply,        \* what the store answered to the last request of another client
  \* car detail / booking view (CarDetail)
  dMounted, dId, dCar, dLoading, dBooking, startDate, endDate, dSession,
  dAuthQ, dNav,
  \* catalog view (Cars)
  cMounted, cCars, cLoading, typeFilter,
  \* admin view (Admin)
  aPc, aSession, aLoading, isAdmin, aCars, aBookings, aNav,
  aReq,         \* requests the admin view issued so far
  aDeleted,     \* history: the deletions handleDeleteCar reported successful
  \* bookings view (Bookings)
  bMounted, bBookings, bLoading, bSession, bAuthQ, bNav,
  bSeen         \* history: the sessions the mounted bookings view received

storeVars == <<user_roles, cars, bookings, clock, auth_users, profiles>>
authVars == <<authUid, nauth>>
detailVars == <<dMounted, dId, dCar, dLoading, dBooking, startDate, endDate,
                dSession, dAuthQ, dNav>>
catalogVars == <<cMounted, cCars, cLoading, typeFilter>>
adminVars == <<aPc, aSession, aLoading, isAdmin, aCars, aBookings, aNav, aReq,
               aDeleted>>
bookingsVars == <<bMounted, bBookings, bLoading, bSession, bAuthQ, bNav,
                  bSeen>>
vars == <<storeVars, authVars, net, nreq, toast, reply, detailVars,
          catalogVars, adminVars, bookingsVars>>

\* ------------------------------------------------------------------ dates
\* getTime() of the Date the calendar hands over for day d: local midnight,
\* in hours.  The day FallBackDay has 25 hours.
LocalMidnight(d) == HoursPerDay * d + (IF d > FallBackDay THEN 1 ELSE 0)

\* format(date, "yyyy-MM-dd"): the calendar day the instant t falls in.
format(t) == CHOOSE d \in 0..(MaxDay + 1) :
               /\ LocalMidnight(d) <= t
               /\ t < LocalMidnight(d + 1)

\* Math.ceil(a / b) for a, b integers, b > 0.
CeilDiv(a, b) == IF a >= 0 THEN (a + b - 1) \div b ELSE -((-a) \div b)

\* ------------------------------------------------------------------ store
NoCar == [id |-> 0]

has_role(_user_id, _role) ==
  \E r \in user_roles : r.user_id = _user_id /\ r.role = _role

\* Row-level-security policies, one operator per CREATE POLICY.
UsersCanViewTheirOwnRoles(uid, row) == uid = row.user_id
AdminsCanViewAllRoles(uid, row) == has_role(uid, "admin")
AdminsCanManageRoles(uid, row) == has_role(uid, "admin")
AnyoneCanViewAvailableCars(uid, row) == TRUE
AdminsCanManageCarsSignedIn(uid, row) == uid # NoSession
AdminsCanManageCars(uid, row) == has_role(uid, "admin")
UsersCanViewTheirOwnBookingsSignedIn(uid, row) == uid # NoSession
UsersCanViewTheirOwnBookings(uid, row) == uid = row.user_id
UsersCanCreateBookings(uid, row) == uid = row.user_id
UsersCanUpdateTheirOwnBookings(uid, row) == uid = row.user_id
AdminsCanViewAllBookings(uid, row) == has_role(uid, "admin")
AdminsCanManageAllBookings(uid, row) == has_role(uid, "admin")

UsersCanViewTheirOwnProfile(uid, row) == uid = row.id
UsersCanUpdateTheirOwnProfile(uid, row) == uid = row.id

\* Permissive policies of one command are OR-ed; a FOR ALL policy applies to
\* every command, and its USING clause is also its WITH CHECK.
RolesSelect(uid, row) ==
  \/ UsersCanViewTheirOwnRoles(uid, row)
  \/ AdminsCanViewAllRoles(uid, row)
  \/ AdminsCanManageRoles(uid, row)
CarsSelect(uid, row) ==
  AnyoneCanViewAvailableCars(uid, row) \/ AdminsCanManageCars(uid, row)
CarsWrite(uid, row) == AdminsCanManageCars(uid, row)
BookingsSelect(uid, row) ==
  \/ UsersCanViewTheirOwnBookings(uid, row)
  \/ AdminsCanViewAllBookings(uid, row)
  \/ AdminsCanManageAllBookings(uid, row)
BookingsInsert(uid, row) ==
  UsersCanCreateBookings(uid, row) \/ AdminsCanManageAllBookings(uid, row)
BookingsUpdate(uid, row) ==
  UsersCanUpdateTheirOwnBookings(uid, row) \/ AdminsCanManageAllBookings(uid, row)
BookingsDelete(uid, row) == AdminsCanManageAllBookings(uid, row)

RECURSIVE OrderAsc(_)
OrderAsc(S) ==
  IF S = {} THEN <<>>
  ELSE LET r == CHOOSE x \in S : \A y \in S : x.created_at <= y.created_at
       IN <<r>> \o OrderAsc(S \ {r})

\* .order("created_at", { ascending: false })
RECURSIVE OrderDesc(_)
OrderDesc(S) ==
  IF S = {} THEN <<>>
  ELSE LET r == CHOOSE x \in S : \A y \in S : y.created_at <= x.created_at
       IN <<r>> \o OrderDesc(S \ {r})

SeqToSet(s) == {s[i] : i \in 1..Len(s)}


\* ------------------------------------------------------- the store's API
\* The value of column f after SET set: the new value when f is named.
Col(row, set, f) == IF f \in DOMAIN set THEN set[f] ELSE row[f]

UpdatedUnlessTerminal(t, row, set) ==
  IF t # "bookings" \/ row.status \in {"completed", "cancelled"}
  THEN row
  ELSE [id |-> Col(row, set, "id"), user_id |-> Col(row, set, "user_id"),
        car_id |-> Col(row, set, "car_id"),
        start_date |-> Col(row, set, "start_date"),
        end_date |-> Col(row, set, "end_date"),
        total_price |-> Col(row, set, "total_price"),
        status |-> Col(row, set, "status"),
        created_at |-> Col(row, set, "created_at")]

\* A row after UPDATE ... SET set.
Updated(t, row, set) ==
  CASE t = "cars" ->
         [id |-> Col(row, set, "id"), type |-> Col(row, set, "type"),
          price_per_day |-> Col(row, set, "price_per_day"),
          status |-> Col(row, set, "status"),
          created_at |-> Col(row, set, "created_at")]
    [] t = "bookings" ->
         [id |-> Col(row, set, "id"), user_id |-> Col(row, set, "user_id"),
          car_id |-> Col(row, set, "car_id"),
          start_date |-> Col(row, set, "start_date"),
          end_date |-> Col(row, set, "end_date"),
          total_price |-> Col(row, set, "total_price"),
          status |-> Col(row, set, "status"),
          created_at |-> Col(row, set, "created_at")]
    [] t = "user_roles" ->
         [user_id |-> Col(row, set, "user_id"), role |-> Col(row, set, "role")]
    [] t = "profiles" ->
         [id |-> Col(row, set, "id"), full_name |-> Col(row, set, "full_name"),
          created_at |-> Col(row, set, "created_at")]

\* .eq(column, value) filters: every named column equals its value.
Match(row, eq) == \A f \in DOMAIN eq : f \in DOMAIN row /\ row[f] = eq[f]

Table(st, t) ==
  CASE t = "cars" -> st.cars
    [] t = "bookings" -> st.bookings
    [] t = "user_roles" -> st.user_roles
    [] t = "profiles" -> st.profiles

Visible(t, uid, row) ==
  CASE t = "cars" -> CarsSelect(uid, row)
    [] t = "bookings" -> BookingsSelect(uid, row)
    [] t = "user_roles" -> RolesSelect(uid, row)
    [] t = "profiles" -> UsersCanViewTheirOwnProfile(uid, row)

CanInsert(t, uid, row) ==
  CASE t = "cars" -> CarsWrite(uid, row)
    [] t = "bookings" -> BookingsInsert(uid, row)
    [] t = "user_roles" -> AdminsCanManageRoles(uid, row)
    [] t = "profiles" -> FALSE

CanUpdate(t, uid, row) ==
  CASE t = "cars" -> CarsWrite(uid, row)
    [] t = "bookings" -> BookingsUpdate(uid, row)
    [] t = "user_roles" -> AdminsCanManageRoles(uid, row)
    [] t = "profiles" -> UsersCanUpdateTheirOwnProfile(uid, row)

CanDelete(t, uid, row) ==
  CASE t = "cars" -> CarsWrite(uid, row)
    [] t = "bookings" -> BookingsDelete(uid, row)
    [] t = "user_roles" -> AdminsCanManageRoles(uid, row)
    [] t = "profiles" -> FALSE

\* Column types of the CREATE TABLE statements (enums, NOT NULL).
TypeOk(t, row) ==
  CASE t = "cars" -> row.type \in CarTypes /\ row.status \in CarStatuses
    [] t = "bookings" ->
         /\ row.status \in BookingStatuses
         /\ row.start_date \in 0..(MaxDay + 1)
         /\ row.end_date \in 0..(MaxDay + 1)
    [] t = "user_roles" -> row.role \in AppRoles
    [] t = "profiles" -> TRUE

\* REFERENCES clauses and UNIQUE(user_id, role).
RefsOkAvailable(st, t, row) ==
  CASE t = "cars" -> TRUE
    [] t = "bookings" ->
         /\ row.user_id \in st.auth_users
         /\ \E c \in st.cars : c.id = row.car_id /\ c.status = "available"
         /\ \A o \in st.bookings :
              o.car_id = row.car_id =>
                o.end_date <= row.start_date \/ row.end_date <= o.start_date
    [] t = "user_roles" ->
         row.user_id \in st.auth_users /\ row \notin st.user_roles
    [] t = "profiles" ->
         /\ row.id \in st.auth_users
         /\ \A p \in st.profiles : p.id # row.id

RefsOk(st, t, row) ==
  CASE t = "cars" -> TRUE
    [] t = "bookings" ->
         /\ row.user_id \in st.auth_users
         /\ \E c \in st.cars : c.id = row.car_id
    [] t = "user_roles" ->
         row.user_id \in st.auth_users /\ row \notin st.user_roles
    [] t = "profiles" ->
         /\ row.id \in st.auth_users
         /\ \A p \in st.profiles : p.id # row.id

\* The row an INSERT stores: the columns given, and the column defaults
\* (gen_random_uuid(), now(), the default status) for the others.
Defaults(t, row) ==
  CASE t = "cars" ->
         [id |-> clock, type |-> row.type, price_per_day |-> row.price_per_day,
          status |-> Col([status |-> "available"], row, "status"),
          created_at |-> clock]
    [] t = "bookings" ->
         [id |-> clock, user_id |-> row.user_id, car_id |-> row.car_id,
          start_date |-> row.start_date, end_date |-> row.end_date,
          total_price |-> row.total_price,
          status |-> Col([status |-> "pending"], row, "status"),
          created_at |-> clock]
    [] t = "user_roles" -> row
    [] t = "profiles" ->
         [id |-> row.id, full_name |-> row.full_name, created_at |-> clock]

\* The store with the rows of table t replaced, nothing else touched.
Others(st, t, rows) ==
  CASE t = "cars" -> [st EXCEPT !.cars = rows]
    [] t = "bookings" -> [st EXCEPT !.bookings = rows]
    [] t = "user_roles" -> [st EXCEPT !.user_roles = rows]
    [] t = "profiles" -> [st EXCEPT !.profiles = rows]

StoreOfNoCascade(st, t, rows) ==
  CASE t = "cars" -> [st EXCEPT !.cars = rows]
    [] t = "bookings" -> [st EXCEPT !.bookings = rows]
    [] t = "user_roles" -> [st EXCEPT !.user_roles = rows]
    [] t = "profiles" -> [st EXCEPT !.profiles = rows]

StoreOf(st, t, rows) ==
  CASE t = "cars" ->
         \* bookings.car_id REFERENCES cars(id) ON DELETE CASCADE
         [st EXCEPT !.cars = rows,
                    !.bookings = {b \in st.bookings :
                                    \E c \in rows : c.id = b.car_id}]
    [] t = "bookings" -> [st EXCEPT !.bookings = rows]
    [] t = "user_roles" -> [st EXCEPT !.user_roles = rows]
    [] t = "profiles" -> [st EXCEPT !.profiles = rows]

Reply(st, ok, msg, rows) == [st |-> st, ok |-> ok, msg |-> msg, rows |-> rows]

\* The tables a select can embed: those joined to it by a foreign key.
\* bookings.car_id references cars(id); bookings.user_id and profiles.id both
\* reference auth.users(id), which relates neither to the other.
Related(t, other) ==
  <<t, other>> \in {<<"bookings", "cars">>, <<"cars", "bookings">>}

Embedded(a) == IF "embed" \in DOMAIN a THEN a.embed ELSE {}

ExecSelect(st, uid, a) ==
  LET hit == {r \in Table(st, a.table) :
                Visible(a.table, uid, r) /\ Match(r, a.eq)}
  IN CASE \E other \in Embedded(a) : ~Related(a.table, other) ->
            Reply(st, FALSE, "Could not find a relationship in the schema cache", <<>>)
       [] a.single = "single" /\ Cardinality(hit) # 1 ->
            Reply(st, FALSE, "JSON object requested, multiple (or no) rows returned", <<>>)
       [] a.single = "maybeSingle" /\ Cardinality(hit) > 1 ->
            Reply(st, FALSE, "JSON object requested, multiple (or no) rows returned", <<>>)
       [] OTHER ->
            Reply(st, TRUE, "",
                  IF a.table = "user_roles"
                  THEN IF hit = {} THEN <<>> ELSE <<CHOOSE r \in hit : TRUE>>
                  ELSE OrderDesc(hit))

ExecInsert(st, uid, a) ==
  LET row == Defaults(a.table, a.row)
  IN CASE ~TypeOk(a.table, row) ->
            Reply(st, FALSE, "invalid input value", <<>>)
       [] ~CanInsert(a.table, uid, row) ->
            Reply(st, FALSE, "new row violates row-level security policy", <<>>)
       [] ~RefsOk(st, a.table, row) ->
            Reply(st, FALSE, "violates foreign key or unique constraint", <<>>)
       [] OTHER ->
            Reply(StoreOf(st, a.table, Table(st, a.table) \cup {row}), TRUE, "", <<>>)

ExecUpdateFirstWins(st, uid, a) ==
  LET all == Table(st, a.table)
      hit == {r \in all : /\ Match(r, a.eq)
                          /\ Visible(a.table, uid, r)
                          /\ CanUpdate(a.table, uid, r)}
      new == {Updated(a.table, r, a.set) : r \in hit}
      rest == Others(st, a.table, all \ hit)
  IN CASE a.table = "bookings" /\ \E r \in hit : r.status # "pending" ->
            Reply(st, FALSE, "row was changed by another writer", <<>>)
       [] \E r \in new : ~TypeOk(a.table, r) ->
            Reply(st, FALSE, "invalid input value", <<>>)
       [] \E r \in new : ~CanUpdate(a.table, uid, r) ->
            Reply(st, FALSE, "new row violates row-level security policy", <<>>)
       [] \E r \in new : ~RefsOk(rest, a.table, r) ->
            Reply(st, FALSE, "violates foreign key or unique constraint", <<>>)
       [] OTHER ->
            Reply(StoreOf(st, a.table, (all \ hit) \cup new), TRUE, "", <<>>)

ExecUpdate(st, uid, a) ==
  LET all == Table(st, a.table)
      hit == {r \in all : /\ Match(r, a.eq)
                          /\ Visible(a.table, uid, r)
                          /\ CanUpdate(a.table, uid, r)}
      new == {Updated(a.table, r, a.set) : r \in hit}
      rest == Others(st, a.table, all \ hit)
  IN CASE \E r \in new : ~TypeOk(a.table, r) ->
            Reply(st, FALSE, "invalid input value", <<>>)
       [] \E r \in new : ~CanUpdate(a.table, uid, r) ->
            Reply(st, FALSE, "new row violates row-level security policy", <<>>)
       [] \E r \in new : ~RefsOk(rest, a.table, r) ->
            Reply(st, FALSE, "violates foreign key or unique constraint", <<>>)
       [] OTHER ->
            Reply(StoreOf(st, a.table, (all \ hit) \cup new), TRUE, "", <<>>)

ExecDelete(st, uid, a) ==
  LET all == Table(st, a.table)
      hit == {r \in all : /\ Match(r, a.eq)
                          /\ Visible(a.table, uid, r)
                          /\ CanDelete(a.table, uid, r)}
  IN Reply(StoreOf(st, a.table, all \ hit), TRUE, "", <<>>)

\* One request executed by the store on behalf of the identity uid.
Exec(st, uid, a) ==
  CASE a.op = "select" -> ExecSelect(st, uid, a)
    [] a.op = "insert" -> ExecInsert(st, uid, a)
    [] a.op = "update" -> ExecUpdate(st, uid, a)
    [] a.op = "delete" -> ExecDelete(st, uid, a)

Store ==
  [cars |-> cars, bookings |-> bookings, user_roles |-> user_roles,
   profiles |-> profiles, auth_users |-> auth_users]


\* ----------------------------------------------------- requests in flight
NoArgs == [op |-> "none"]

Request(view, kind, a) ==
  [id |-> nreq + 1, view |-> view, kind |-> kind, uid |-> authUid,
   phase |-> "req", ok |-> FALSE, msg |-> "", rows |-> <<>>, a |-> a]

Send(view, kind, a) ==
  /\ nreq - aReq < MaxReq
  /\ net' = net \cup {Request(view, kind, a)}
  /\ nreq' = nreq + 1

Pending(view, kind) == {m \in net : m.view = view /\ m.kind = kind}
Answered(view, kind) == {m \in Pending(view, kind) : m.phase = "resp"}

\* A view that navigates away is unmounted: what it still awaits is dropped
\* when it arrives.
Orphan(N, view) ==
  {IF m.view = view THEN [m EXCEPT !.view = "gone"] ELSE m : m \in N}

\* The store executes one request, with the identity its token carried.
StoreExec ==
  \E m \in net :
    /\ m.phase = "req"
    /\ m.a.op = "insert" => clock <= MaxClock
    /\ LET r == Exec(Store, m.uid, m.a)
       IN /\ cars' = r.st.cars
          /\ bookings' = r.st.bookings
          /\ user_roles' = r.st.user_roles
          /\ profiles' = r.st.profiles
          /\ auth_users' = auth_users
          /\ clock' = IF m.a.op = "insert" /\ r.ok THEN clock + 1 ELSE clock
          /\ net' = (net \ {m}) \cup
                    {[m EXCEPT !.phase = "resp", !.ok = r.ok, !.msg = r.msg,
                               !.rows = r.rows]}
    /\ UNCHANGED <<authVars, nreq, toast, detailVars, reply, catalogVars, adminVars, bookingsVars>>

\* The request does not reach the store, or the store is down.
StoreFail ==
  \E m \in net :
    /\ m.phase = "req"
    /\ net' = (net \ {m}) \cup
              {[m EXCEPT !.phase = "resp", !.ok = FALSE, !.msg = "Failed to fetch"]}
    /\ UNCHANGED <<storeVars, authVars, nreq, toast, detailVars, reply, catalogVars,
                   adminVars, bookingsVars>>

\* The answer to a request whose view was left in the meantime: the
\* continuation of the fetch still runs, its state updates are lost with the
\* component and its notification is shown.  Only fetches are in flight when
\* a view is left; fetchCars of the catalog notifies nothing.
OrphanToast(m) ==
  CASE ~m.ok /\ m.kind = "fetchBookings" -> "Failed to load bookings"
    [] ~m.ok /\ m.kind = "fetchCar" -> "Failed to load car details"
    [] OTHER -> toast

DropAnswer ==
  \E m \in net :
    /\ m.view = "gone" /\ m.phase = "resp"
    /\ net' = net \ {m}
    /\ toast' = OrphanToast(m)
    /\ UNCHANGED <<storeVars, authVars, nreq, detailVars, reply, catalogVars,
                   adminVars, bookingsVars>>

\* ------------------------------------------------------------------- auth
\* The session changes (sign-in, sign-out, also from another tab of the
\* browser); every subscribed view is notified asynchronously.
AuthChange(u) ==
  /\ nauth < MaxAuth
  /\ u # authUid
  /\ authUid' = u
  /\ nauth' = nauth + 1
  /\ dAuthQ' = IF dMounted THEN Append(dAuthQ, u) ELSE dAuthQ
  /\ bAuthQ' = IF bMounted THEN Append(bAuthQ, u) ELSE bAuthQ
  /\ UNCHANGED <<storeVars, net, nreq, toast, dMounted, dId, dCar, dLoading,
                 dBooking, startDate, endDate, dSession, dNav, reply, catalogVars,
                 adminVars, bMounted, bBookings, bLoading, bSession, bNav,
                 bSeen>>

SignIn == \E u \in auth_users : AuthChange(u)
SignOut == AuthChange(NoSession)


\* -------------------------------------------- car detail / booking view
\* An id no car row has: a stale link.
MissingCarId == 99

\* The state of the view's hooks at mount.
DetailAtMount ==
  /\ dId' = 0
  /\ dCar' = NoCar
  /\ dLoading' = TRUE
  /\ dBooking' = FALSE
  /\ startDate' = NoDate
  /\ endDate' = NoDate
  /\ dSession' = NoSession
  /\ dAuthQ' = <<>>

\* The booking form is on screen: not the spinner, not "Car not found".
FormShown == dMounted /\ ~dLoading /\ dCar # NoCar

\* The route /cars/:id is opened: state of a fresh mount, the two effects
\* run (getSession and the subscription; fetchCar when id is set).
OpenDetail ==
  \E id \in {c.id : c \in cars} \cup {MissingCarId} :
    /\ ~dMounted
    /\ dMounted' = TRUE
    /\ dId' = id
    /\ dCar' = NoCar
    /\ dLoading' = TRUE
    /\ dBooking' = FALSE
    /\ startDate' = NoDate
    /\ endDate' = NoDate
    /\ dSession' = NoSession
    /\ dAuthQ' = <<"getSession">>
    /\ dNav' = ""
    /\ Send("detail", "fetchCar",
            [op |-> "select", table |-> "cars", eq |-> [id |-> id],
             single |-> "single"])
    /\ UNCHANGED <<storeVars, authVars, toast, reply, catalogVars, adminVars, bookingsVars>>

\* getSession() resolves, or a notification of onAuthStateChange arrives:
\* setSession(session).
DetailSession ==
  /\ dMounted
  /\ dAuthQ # <<>>
  /\ dSession' = IF Head(dAuthQ) = "getSession" THEN authUid ELSE Head(dAuthQ)
  /\ dAuthQ' = Tail(dAuthQ)
  /\ UNCHANGED <<storeVars, authVars, net, nreq, toast, dMounted, dId, dCar,
                 dLoading, dBooking, startDate, endDate, dNav, reply, catalogVars,
                 adminVars, bookingsVars>>

\* fetchCar, after its await.
FetchCarDone ==
  \E m \in Answered("detail", "fetchCar") :
    /\ net' = net \ {m}
    /\ IF m.ok
       THEN dCar' = m.rows[1] /\ toast' = toast
       ELSE dCar' = dCar /\ toast' = "Failed to load car details"
    /\ dLoading' = FALSE
    /\ UNCHANGED <<storeVars, authVars, nreq, dMounted, dId, dBooking,
                   startDate, endDate, dSession, dAuthQ, dNav, reply, catalogVars,
                   adminVars, bookingsVars>>

\* The start calendar: onSelect={setStartDate}.
SelectStartDate ==
  \E d \in Days :
    /\ FormShown
    /\ startDate' = LocalMidnight(d)
    /\ UNCHANGED <<storeVars, authVars, net, nreq, toast, dMounted, dId, dCar,
                   dLoading, dBooking, endDate, dSession, dAuthQ, dNav,
                   reply, catalogVars, adminVars, bookingsVars>>

\* The end calendar: onSelect={setEndDate}, with the days up to the start
\* date disabled.
SelectEndDate ==
  \E d \in Days :
    /\ FormShown
    /\ ~(startDate = NoDate \/ LocalMidnight(d) <= startDate)
    /\ endDate' = LocalMidnight(d)
    /\ UNCHANGED <<storeVars, authVars, net, nreq, toast, dMounted, dId, dCar,
                   dLoading, dBooking, startDate, dSession, dAuthQ, dNav,
                   reply, catalogVars, adminVars, bookingsVars>>

calculateTotalRound ==
  IF startDate = NoDate \/ endDate = NoDate \/ dCar = NoCar THEN 0
  ELSE LET days == (2 * (endDate - startDate) + HoursPerDay) \div (2 * HoursPerDay)
       IN days * dCar.price_per_day

calculateTotal ==
  IF startDate = NoDate \/ endDate = NoDate \/ dCar = NoCar THEN 0
  ELSE LET days == CeilDiv(endDate - startDate, HoursPerDay)
       IN days * dCar.price_per_day

BookingRowConfirmed ==
  [user_id |-> dSession, car_id |-> dId,
   start_date |-> format(startDate), end_date |-> format(endDate),
   total_price |-> calculateTotal, status |-> "confirmed"]

\* The row handleBooking inserts.
BookingRow ==
  [user_id |-> dSession, car_id |-> dId,
   start_date |-> format(startDate), end_date |-> format(endDate),
   total_price |-> calculateTotal, status |-> "pending"]

\* The three guards of handleBooking.
NotSignedIn == dSession = NoSession
DatesMissing == startDate = NoDate \/ endDate = NoDate
DatesRejectedStrict == startDate > endDate
DatesRejected == startDate >= endDate

\* handleBooking up to its await.  The handler's own guards are modelled;
\* of the button's disabled attribute only the booking flag is.
handleBooking ==
  \/ /\ FormShown /\ ~dBooking
     /\ NotSignedIn
     /\ toast' = "Please sign in to book a car"
     /\ dNav' = "/auth"
     /\ dMounted' = FALSE
     /\ net' = Orphan(net, "detail")
     /\ DetailAtMount
     /\ UNCHANGED <<storeVars, authVars, nreq, reply, catalogVars, adminVars, bookingsVars>>
  \/ /\ FormShown /\ ~dBooking
     /\ ~NotSignedIn
     /\ DatesMissing
     /\ toast' = "Please select start and end dates"
     /\ UNCHANGED <<storeVars, authVars, net, nreq, detailVars, reply, catalogVars,
                    adminVars, bookingsVars>>
  \/ /\ FormShown /\ ~dBooking
     /\ ~NotSignedIn
     /\ ~DatesMissing
     /\ DatesRejected
     /\ toast' = "End date must be after start date"
     /\ UNCHANGED <<storeVars, authVars, net, nreq, detailVars, reply, catalogVars,
                    adminVars, bookingsVars>>
  \/ /\ FormShown /\ ~dBooking
     /\ ~NotSignedIn
     /\ ~DatesMissing
     /\ ~DatesRejected
     /\ dBooking' = TRUE
     /\ Send("detail", "handleBooking",
             [op |-> "insert", table |-> "bookings", row |-> BookingRow])
     /\ UNCHANGED <<storeVars, authVars, toast, dMounted, dId, dCar, dLoading,
                    startDate, endDate, dSession, dAuthQ, dNav, reply, catalogVars,
                    adminVars, bookingsVars>>

BookingDoneNoFinally ==
  \E m \in Answered("detail", "handleBooking") :
    /\ IF m.ok
       THEN /\ toast' = "Booking created successfully!"
            /\ dNav' = "/bookings"
            /\ dMounted' = FALSE
            /\ net' = Orphan(net \ {m}, "detail")
            /\ DetailAtMount
       ELSE /\ toast' = IF m.msg # "" THEN m.msg ELSE "Failed to create booking"
            /\ net' = net \ {m}
            /\ dBooking' = dBooking
            /\ UNCHANGED <<dNav, dMounted, dId, dCar, dLoading, startDate,
                           endDate, dSession, dAuthQ>>
    /\ UNCHANGED <<storeVars, authVars, nreq, reply, catalogVars, adminVars, bookingsVars>>
\* handleBooking after its await.
BookingDone ==
  \E m \in Answered("detail", "handleBooking") :
    /\ IF m.ok
       THEN /\ toast' = "Booking created successfully!"
            /\ dNav' = "/bookings"
            /\ dMounted' = FALSE
            /\ net' = Orphan(net \ {m}, "detail")
            /\ DetailAtMount
       ELSE /\ toast' = IF m.msg # "" THEN m.msg ELSE "Failed to create booking"
            /\ net' = net \ {m}
            /\ dBooking' = FALSE
            /\ UNCHANGED <<dNav, dMounted, dId, dCar, dLoading, startDate,
                           endDate, dSession, dAuthQ>>
    /\ UNCHANGED <<storeVars, authVars, nreq, reply, catalogVars, adminVars, bookingsVars>>

\* ----------------------------------------------------------- catalog view
\* The route /cars is opened: state of a fresh mount, the effect runs
\* fetchCars.
OpenCatalog ==
  /\ ~cMounted
  /\ cMounted' = TRUE
  /\ cCars' = <<>>
  /\ cLoading' = TRUE
  /\ typeFilter' = "all"
  /\ Send("catalog", "fetchCars",
          [op |-> "select", table |-> "cars", eq |-> [status |-> "available"],
           single |-> ""])
  /\ UNCHANGED <<storeVars, authVars, toast, reply, detailVars, adminVars, bookingsVars>>

\* The user follows a link of the page: the view is unmounted.
LeaveCatalog ==
  /\ cMounted
  /\ cMounted' = FALSE
  /\ cCars' = <<>>
  /\ cLoading' = TRUE
  /\ typeFilter' = "all"
  /\ net' = Orphan(net, "catalog")
  /\ UNCHANGED <<storeVars, authVars, nreq, toast, reply, detailVars, adminVars, bookingsVars>>

\* fetchCars of the catalog, after its await: setCars(data || []), or only a
\* console.error.
CatalogFetchDone ==
  \E m \in Answered("catalog", "fetchCars") :
    /\ net' = net \ {m}
    /\ cCars' = IF m.ok THEN m.rows ELSE cCars
    /\ cLoading' = FALSE
    /\ UNCHANGED <<storeVars, authVars, nreq, toast, reply, cMounted,
                   typeFilter, detailVars, adminVars, bookingsVars>>

\* The type select: onValueChange={setTypeFilter}.
SetTypeFilter ==
  \E t \in {"all"} \cup CarTypes :
    /\ cMounted
    /\ typeFilter' = t
    /\ UNCHANGED <<storeVars, authVars, net, nreq, toast, reply, cMounted,
                   cCars, cLoading, detailVars, adminVars, bookingsVars>>

OfType(c) == c.type = typeFilter
NotOfType(c) == c.type # typeFilter

filteredCarsInverted ==
  IF typeFilter = "all" THEN cCars ELSE SelectSeq(cCars, NotOfType)

filteredCars ==
  IF typeFilter = "all" THEN cCars ELSE SelectSeq(cCars, OfType)

\* ------------------------------------------------------------- admin view
\* The requests of the admin view count against its own budget.
SendAdmin(N) ==
  /\ aReq + Cardinality(N) <= MaxAdminReq
  /\ net' = net \cup N
  /\ nreq' = nreq + Cardinality(N)
  /\ aReq' = aReq + Cardinality(N)

\* The route /admin is opened: state of a fresh mount, the effect runs
\* checkAdmin, which awaits getSession().
OpenAdmin ==
  /\ aPc \in {"closed", "left"}
  /\ aPc' = "getSession"
  /\ aSession' = NoSession
  /\ aLoading' = TRUE
  /\ isAdmin' = FALSE
  /\ aCars' = <<>>
  /\ aBookings' = <<>>
  /\ aNav' = ""
  /\ UNCHANGED <<bookingsVars, storeVars, authVars, net, nreq, toast, reply, detailVars,
                 catalogVars, aReq, aDeleted>>

\* checkAdmin, after getSession(): without a session navigate("/auth"), else
\* the role probe on user_roles is sent.
AdminSession ==
  /\ aPc = "getSession"
  /\ aSession' = authUid
  /\ IF authUid = NoSession
     THEN /\ aNav' = "/auth"
          /\ aPc' = "left"
          /\ UNCHANGED <<bookingsVars, net, nreq, aReq>>
     ELSE /\ aNav' = aNav
          /\ aPc' = "probe"
          /\ SendAdmin({Request("admin", "checkAdmin",
                          [op |-> "select", table |-> "user_roles",
                           eq |-> [user_id |-> authUid, role |-> "admin"],
                           single |-> "maybeSingle"])})
  /\ UNCHANGED <<bookingsVars, storeVars, authVars, toast, reply, detailVars, catalogVars,
                 aLoading, isAdmin, aCars, aBookings, aDeleted>>

\* const { data } = await ...maybeSingle(): the row, or null when no row
\* matched or the request failed.
ProbeDataUnlessError(m) == m.ok
ProbeData(m) == m.ok /\ m.rows # <<>>

\* The select of fetchCars (all cars, newest first) and of fetchBookings,
\* which embeds cars(...) and profiles(...).
AdminFetchCars ==
  Request("admin", "fetchCars",
          [op |-> "select", table |-> "cars", eq |-> <<>>, single |-> ""])
AdminFetchBookings ==
  Request("admin", "fetchBookings",
          [op |-> "select", table |-> "bookings", eq |-> <<>>, single |-> "",
           embed |-> {"cars", "profiles"}])

\* checkAdmin, after the probe: without data a notification and
\* navigate("/"); else setIsAdmin(true), fetchCars(), fetchBookings() (both
\* sent, neither awaited) and setLoading(false).
CheckAdminDone ==
  \E m \in Answered("admin", "checkAdmin") :
    /\ aPc = "probe"
    /\ IF ~ProbeData(m)
       THEN /\ toast' = "Access denied: Admin only"
            /\ aNav' = "/"
            /\ aPc' = "left"
            /\ net' = net \ {m}
            /\ UNCHANGED <<bookingsVars, nreq, aReq, isAdmin, aLoading>>
       ELSE /\ isAdmin' = TRUE
            /\ aLoading' = FALSE
            /\ aPc' = "ready"
            /\ aReq + 2 <= MaxAdminReq
            /\ net' = (net \ {m}) \cup
                      {AdminFetchCars,
                       [AdminFetchBookings EXCEPT !.id = nreq + 2]}
            /\ nreq' = nreq + 2
            /\ aReq' = aReq + 2
            /\ UNCHANGED <<bookingsVars, toast, aNav>>
    /\ UNCHANGED <<bookingsVars, storeVars, authVars, reply, detailVars, catalogVars,
                   aSession, aCars, aBookings, aDeleted>>

\* fetchCars of the admin view, after its await.
AdminFetchCarsDone ==
  \E m \in Answered("admin", "fetchCars") :
    /\ net' = net \ {m}
    /\ IF m.ok
       THEN aCars' = m.rows /\ toast' = toast
       ELSE aCars' = aCars /\ toast' = "Failed to fetch cars"
    /\ UNCHANGED <<bookingsVars, storeVars, authVars, nreq, reply, detailVars, catalogVars,
                   aPc, aSession, aLoading, isAdmin, aBookings, aNav, aReq,
                   aDeleted>>

\* fetchBookings of the admin view, after its await.
AdminFetchBookingsDone ==
  \E m \in Answered("admin", "fetchBookings") :
    /\ net' = net \ {m}
    /\ IF m.ok
       THEN aBookings' = m.rows /\ toast' = toast
       ELSE aBookings' = aBookings /\ toast' = "Failed to fetch bookings"
    /\ UNCHANGED <<bookingsVars, storeVars, authVars, nreq, reply, detailVars, catalogVars,
                   aPc, aSession, aLoading, isAdmin, aCars, aNav, aReq,
                   aDeleted>>

\* The dashboard is on screen: not the spinner, not null.
DashboardShown == aPc = "ready" /\ ~aLoading /\ isAdmin

\* The trash button of a listed car: handleDeleteCar(car.id), up to its
\* await.  The button is never disabled.
handleDeleteCar ==
  \E i \in 1..Len(aCars) :
    /\ DashboardShown
    /\ SendAdmin({Request("admin", "handleDeleteCar",
                    [op |-> "delete", table |-> "cars",
                     eq |-> [id |-> aCars[i].id]])})
    /\ UNCHANGED <<bookingsVars, storeVars, authVars, toast, reply, detailVars, catalogVars,
                   aPc, aSession, aLoading, isAdmin, aCars, aBookings, aNav,
                   aDeleted>>

\* The form "Add New Car" is submitted: the insert of handleAddCar, up to
\* its await.  Every input of the form is required.
handleAddCar ==
  \E type \in {"van"}, price \in {50} :
    /\ DashboardShown
    /\ SendAdmin({Request("admin", "handleAddCar",
                    [op |-> "insert", table |-> "cars",
                     row |-> [type |-> type, price_per_day |-> price,
                              status |-> "available"]])})
    /\ UNCHANGED <<bookingsVars, storeVars, authVars, toast, reply, detailVars,
                   catalogVars, aPc, aSession, aLoading, isAdmin, aCars,
                   aBookings, aNav, aDeleted>>

\* handleAddCar, after its await: a notification, and on success
\* e.currentTarget.reset() and then fetchCars().  The event system clears
\* currentTarget once the handler has returned to it, which it has at the
\* await: where it is cleared the call throws and fetchCars() is not
\* reached, where the event keeps its target the list is fetched again.
AddCarDone ==
  \E m \in Answered("admin", "handleAddCar") :
    /\ IF ~m.ok
       THEN /\ toast' = "Failed to add car"
            /\ net' = net \ {m}
            /\ UNCHANGED <<nreq, aReq>>
       ELSE /\ toast' = "Car added successfully"
            /\ \/ /\ net' = net \ {m}
                  /\ UNCHANGED <<nreq, aReq>>
               \/ /\ aReq < MaxAdminReq
                  /\ net' = (net \ {m}) \cup {AdminFetchCars}
                  /\ nreq' = nreq + 1
                  /\ aReq' = aReq + 1
    /\ UNCHANGED <<bookingsVars, storeVars, authVars, reply, detailVars,
                   catalogVars, aPc, aSession, aLoading, isAdmin, aCars,
                   aBookings, aNav, aDeleted>>

\* handleDeleteCar, after its await: a notification, and on success
\* fetchCars().
DeleteCarDone ==
  \E m \in Answered("admin", "handleDeleteCar") :
    /\ IF ~m.ok
       THEN /\ toast' = "Failed to delete car"
            /\ net' = net \ {m}
            /\ UNCHANGED <<bookingsVars, nreq, aReq, aDeleted>>
       ELSE /\ toast' = "Car deleted successfully"
            /\ aReq < MaxAdminReq
            /\ net' = (net \ {m}) \cup {AdminFetchCars}
            /\ nreq' = nreq + 1
            /\ aReq' = aReq + 1
            /\ aDeleted' = aDeleted \cup
                 {[id |-> m.a.eq.id, uid |-> m.uid, fetch |-> nreq + 1]}
    /\ UNCHANGED <<bookingsVars, storeVars, authVars, reply, detailVars, catalogVars,
                   aPc, aSession, aLoading, isAdmin, aCars, aBookings, aNav>>

\* What updateBookingStatus(id, status) asks of the store:
\* .from("bookings").update({ status }).eq("id", id).
StatusUpdate(id, status) ==
  [op |-> "update", table |-> "bookings", eq |-> [id |-> id],
   set |-> [status |-> status]]

\* The status select of a listed booking: onValueChange fires for a value
\* other than the one displayed; updateBookingStatus(booking.id, value), up
\* to its await.
updateBookingStatus ==
  \E i \in 1..Len(aBookings), status \in BookingStatuses :
    /\ DashboardShown
    /\ status # aBookings[i].status
    /\ SendAdmin({Request("admin", "updateBookingStatus",
                    StatusUpdate(aBookings[i].id, status))})
    /\ UNCHANGED <<bookingsVars, storeVars, authVars, toast, reply, detailVars,
                   catalogVars, aPc, aSession, aLoading, isAdmin, aCars,
                   aBookings, aNav, aDeleted>>

\* updateBookingStatus, after its await: a notification, and on success
\* fetchBookings().
UpdateStatusDone ==
  \E m \in Answered("admin", "updateBookingStatus") :
    /\ IF ~m.ok
       THEN /\ toast' = "Failed to update booking"
            /\ net' = net \ {m}
            /\ UNCHANGED <<nreq, aReq>>
       ELSE /\ toast' = "Booking updated successfully"
            /\ aReq < MaxAdminReq
            /\ net' = (net \ {m}) \cup {AdminFetchBookings}
            /\ nreq' = nreq + 1
            /\ aReq' = aReq + 1
    /\ UNCHANGED <<bookingsVars, storeVars, authVars, reply, detailVars,
                   catalogVars, aPc, aSession, aLoading, isAdmin, aCars,
                   aBookings, aNav, aDeleted>>

\* ---------------------------------------------------------- bookings view
\* The state of the view's hooks at mount.
BookingsAtMount ==
  /\ bBookings' = <<>>
  /\ bLoading' = TRUE
  /\ bSession' = NoSession
  /\ bSeen' = {}

\* The route /bookings is opened: state of a fresh mount; the effect calls
\* getSession() and subscribes to onAuthStateChange.  A subscription may
\* deliver the session it finds as a first notification (INITIAL_SESSION):
\* whether it does depends on the client library installed.  getSession()
\* reads the stored session and resolves first; what is left of the queue
\* when the view unmounts are notifications, which the cleanup unsubscribes.
OpenBookings ==
  \E first \in {<<"getSession">>, <<"getSession", "getSession">>} :
    /\ ~bMounted
    /\ bMounted' = TRUE
    /\ BookingsAtMount
    /\ bAuthQ' = first
    /\ bNav' = ""
    /\ UNCHANGED <<storeVars, authVars, net, nreq, toast, reply, detailVars,
                   catalogVars, adminVars>>

\* The request of fetchBookings(userId), which embeds cars(...).
FetchBookingsAll(userId) ==
  Request("bookings", "fetchBookings",
          [op |-> "select", table |-> "bookings", eq |-> <<>>, single |-> "",
           embed |-> {"cars"}])
FetchBookings(userId) ==
  Request("bookings", "fetchBookings",
          [op |-> "select", table |-> "bookings", eq |-> [user_id |-> userId],
           single |-> "", embed |-> {"cars"}])

\* getSession() resolves, or a notification of onAuthStateChange arrives:
\* without a session navigate("/auth"); else setSession(session) and
\* fetchBookings(session.user.id), up to its await.
BookingsSession ==
  /\ bMounted
  /\ bAuthQ # <<>>
  /\ LET session == IF Head(bAuthQ) = "getSession" THEN authUid
                    ELSE Head(bAuthQ)
     IN IF session = NoSession
        THEN /\ bNav' = "/auth"
             /\ bMounted' = FALSE
             /\ BookingsAtMount
             /\ bAuthQ' = <<>>
             /\ net' = Orphan(net, "bookings")
             /\ nreq' = nreq
        ELSE /\ bSession' = session
             /\ bSeen' = bSeen \cup {session}
             /\ bAuthQ' = Tail(bAuthQ)
             /\ nreq - aReq < MaxReq
             /\ net' = net \cup {FetchBookings(session)}
             /\ nreq' = nreq + 1
             /\ UNCHANGED <<bMounted, bBookings, bLoading, bNav>>
  /\ UNCHANGED <<storeVars, authVars, toast, reply, detailVars, catalogVars,
                 adminVars>>

\* fetchBookings, after its await: setBookings(data || []), or a
\* notification; finally setLoading(false).
BookingsFetchDone ==
  \E m \in Answered("bookings", "fetchBookings") :
    /\ net' = net \ {m}
    /\ IF m.ok
       THEN bBookings' = m.rows /\ toast' = toast
       ELSE bBookings' = bBookings /\ toast' = "Failed to load bookings"
    /\ bLoading' = FALSE
    /\ UNCHANGED <<storeVars, authVars, nreq, reply, detailVars, catalogVars,
                   adminVars, bMounted, bSession, bAuthQ, bNav, bSeen>>

\* The button "Browse Cars", shown in place of an empty list:
\* navigate("/cars"), which unmounts the view.
browseCars ==
  /\ bMounted /\ ~bLoading
  /\ bBookings = <<>>
  /\ bNav' = "/cars"
  /\ bMounted' = FALSE
  /\ BookingsAtMount
  /\ bAuthQ' = <<>>
  /\ net' = Orphan(net, "bookings")
  /\ UNCHANGED <<storeVars, authVars, nreq, toast, reply, detailVars,
                 catalogVars, adminVars>>

\* ------------------------------------------ requests of other clients
\* Any holder of the project's public key, signed in or not, can send any
\* request to the store's API; the policies decide.  The request is executed
\* at once; reply keeps who asked, for what, and the answer.
NoReply == [n |-> 0, uid |-> NoSession, op |-> "none", table |-> "none",
            ok |-> FALSE, msg |-> "", rows |-> <<>>]

Callers == Users \cup {NoSession}

Direct(uid, a) ==
  /\ reply.n < MaxDirect
  /\ uid \in auth_users \cup {NoSession}
  /\ a.op = "insert" => clock <= MaxClock
  /\ LET r == Exec(Store, uid, a)
     IN /\ cars' = r.st.cars
        /\ bookings' = r.st.bookings
        /\ user_roles' = r.st.user_roles
        /\ profiles' = r.st.profiles
        /\ auth_users' = auth_users
        /\ clock' = IF a.op = "insert" /\ r.ok THEN clock + 1 ELSE clock
        /\ reply' = [n |-> reply.n + 1, uid |-> uid, op |-> a.op,
                     table |-> a.table, ok |-> r.ok, msg |-> r.msg,
                     rows |-> r.rows]
  /\ UNCHANGED <<authVars, net, nreq, toast, detailVars, catalogVars, adminVars, bookingsVars>>

DirectInsertBooking ==
  \E uid \in Callers, owner \in {"u1", "u2"}, car \in {1, MissingCarId},
     s \in {0, 1}, e \in {1}, st \in {"pending", "confirmed"} :
    Direct(uid, [op |-> "insert", table |-> "bookings",
                 row |-> [user_id |-> owner, car_id |-> car, start_date |-> s,
                          end_date |-> e, total_price |-> 50, status |-> st]])

BookingChanges ==
  {[status |-> "confirmed"], [status |-> "cancelled"], [end_date |-> 0],
   [total_price |-> 0], [user_id |-> "u2"]}

DirectUpdateBooking ==
  \E uid \in Callers, b \in bookings, set \in BookingChanges :
    Direct(uid, [op |-> "update", table |-> "bookings", eq |-> [id |-> b.id],
                 set |-> set])

DirectDeleteBooking ==
  \E uid \in Callers, b \in bookings :
    Direct(uid, [op |-> "delete", table |-> "bookings", eq |-> [id |-> b.id]])

DirectSelectBookings ==
  \E uid \in Callers :
    Direct(uid, [op |-> "select", table |-> "bookings", eq |-> <<>>,
                 single |-> ""])

DirectInsertCar ==
  \E uid \in Callers :
    Direct(uid, [op |-> "insert", table |-> "cars",
                 row |-> [type |-> "van", price_per_day |-> 50,
                          status |-> "available"]])

DirectUpdateCar ==
  \E uid \in Callers, c \in cars,
     set \in {[status |-> "maintenance"], [price_per_day |-> 0]} :
    Direct(uid, [op |-> "update", table |-> "cars", eq |-> [id |-> c.id],
                 set |-> set])

DirectDeleteCar ==
  \E uid \in Callers, c \in cars :
    Direct(uid, [op |-> "delete", table |-> "cars", eq |-> [id |-> c.id]])

DirectInsertRole ==
  \E uid \in Callers, u \in {"u1"} :
    Direct(uid, [op |-> "insert", table |-> "user_roles",
                 row |-> [user_id |-> u, role |-> "admin"]])

DirectDeleteRole ==
  \E uid \in Callers, r \in user_roles :
    /\ r.role = "admin"
    /\ Direct(uid, [op |-> "delete", table |-> "user_roles",
                    eq |-> [user_id |-> r.user_id, role |-> r.role]])

DirectUpdateRole ==
  \E uid \in Callers, r \in user_roles :
    Direct(uid, [op |-> "update", table |-> "user_roles",
                 eq |-> [user_id |-> r.user_id, role |-> r.role],
                 set |-> [role |-> "admin"]])

DirectGrantRole ==
  \E uid \in Callers, u \in Users :
    Direct(uid, [op |-> "insert", table |-> "user_roles",
                 row |-> [user_id |-> u, role |-> "admin"]])

DirectInsertProfile ==
  \E uid \in Callers, u \in Users :
    Direct(uid, [op |-> "insert", table |-> "profiles",
                 row |-> [id |-> u, full_name |-> "x"]])

DirectUpdateProfile ==
  \E uid \in Callers, p \in profiles, set \in {[full_name |-> "x"], [id |-> "u2"]} :
    Direct(uid, [op |-> "update", table |-> "profiles", eq |-> [id |-> p.id],
                 set |-> set])

DirectDeleteProfile ==
  \E uid \in Callers, p \in profiles :
    Direct(uid, [op |-> "delete", table |-> "profiles", eq |-> [id |-> p.id]])

\* An admin in another tab deletes a car (handleDeleteCar there), and some
\* client tries to move a booking to a car that does not exist.
OtherTabDeletesCar ==
  \E c \in cars :
    /\ has_role("adm", "admin")
    /\ Direct("adm", [op |-> "delete", table |-> "cars", eq |-> [id |-> c.id]])

DirectMoveBooking ==
  \E uid \in {"u1", "adm"}, b \in bookings :
    Direct(uid, [op |-> "update", table |-> "bookings", eq |-> [id |-> b.id],
                 set |-> [car_id |-> MissingCarId]])

\* A client other than the app, holding an admin's token, sends the update
\* of a booking's status to the store's API: the policy 'Admins can manage
\* all bookings' decides.  The app's own dashboard never sends one, as it
\* lists no booking (NoBookingListed).
DirectUpdateStatus ==
  \E b \in bookings, status \in BookingStatuses :
    /\ has_role("adm", "admin")
    /\ Direct("adm", StatusUpdate(b.id, status))

\* ------------------------------------------------------------------ signup
\* The trigger on_auth_user_created: handle_new_user() inserts the profile
\* and the role of the new identity (SECURITY DEFINER: no policy applies).
handle_new_userAsAdmin(st, new_row) ==
  [st EXCEPT !.profiles = @ \cup {[id |-> new_row.id, full_name |-> new_row.full_name,
                                   created_at |-> clock]},
             !.user_roles = @ \cup {[user_id |-> new_row.id, role |-> "admin"]}]
handle_new_user(st, new_row) ==
  [st EXCEPT !.profiles = @ \cup {[id |-> new_row.id, full_name |-> new_row.full_name,
                                   created_at |-> clock]},
             !.user_roles = @ \cup {[user_id |-> new_row.id, role |-> "user"]}]

\* The hosted sign-up inserts the identity into auth.users; the trigger runs
\* in the same transaction.
SignUp ==
  \E u \in Users \ auth_users, name \in {"", "x"} :
    LET st == handle_new_user(Store, [id |-> u, full_name |-> name])
    IN /\ auth_users' = auth_users \cup {u}
       /\ profiles' = st.profiles
       /\ user_roles' = st.user_roles
       /\ UNCHANGED <<cars, bookings, clock, authVars, net, nreq, toast, reply,
                      detailVars, catalogVars, adminVars, bookingsVars>>

\* ------------------------------------------------------------ initial state
SeedCars ==
  {[id |-> 1, type |-> "sedan", price_per_day |-> 50, status |-> "available",
    created_at |-> 1],
   [id |-> 2, type |-> "suv", price_per_day |-> 75, status |-> "rented",
    created_at |-> 2]}

SeedRoles ==
  {[user_id |-> u, role |-> "user"] : u \in Users}
    \cup {[user_id |-> "adm", role |-> "admin"]}

\* Cars an admin may have added before: the catalog is checked on every
\* subset of them.
CarPool ==
  SeedCars \cup
  {[id |-> 3, type |-> "van", price_per_day |-> 50, status |-> "available",
    created_at |-> 3],
   [id |-> 4, type |-> "sedan", price_per_day |-> 75, status |-> "available",
    created_at |-> 4]}

\* Everybody has signed up: handle_new_user gave each a profile.
SeedProfiles == {[id |-> u, full_name |-> u, created_at |-> 0] : u \in Users}

\* Nothing is mounted, no request was sent.
InitViews ==
  /\ nauth = 0
  /\ net = {}
  /\ nreq = 0
  /\ toast = ""
  /\ reply = NoReply
  /\ dMounted = FALSE /\ dId = 0 /\ dCar = NoCar /\ dLoading = TRUE
  /\ dBooking = FALSE /\ startDate = NoDate /\ endDate = NoDate
  /\ dSession = NoSession /\ dAuthQ = <<>> /\ dNav = ""
  /\ cMounted = FALSE /\ cCars = <<>> /\ cLoading = TRUE /\ typeFilter = "all"
  /\ aPc = "closed" /\ aSession = NoSession /\ aLoading = TRUE
  /\ isAdmin = FALSE /\ aCars = <<>> /\ aBookings = <<>> /\ aNav = ""
  /\ aReq = 0 /\ aDeleted = {}
  /\ bMounted = FALSE /\ bBookings = <<>> /\ bLoading = TRUE
  /\ bSession = NoSession /\ bAuthQ = <<>> /\ bNav = "" /\ bSeen = {}

\* Everybody has an account.
InitClient ==
  /\ auth_users = Users
  /\ profiles = SeedProfiles
  /\ InitViews

Init ==
  /\ user_roles = SeedRoles
  /\ cars = SeedCars
  /\ bookings = {}
  /\ clock = 3
  /\ authUid \in {NoSession, "u1"}
  /\ InitClient

InitCatalog ==
  /\ user_roles = SeedRoles
  /\ cars \in SUBSET CarPool
  /\ bookings = {}
  /\ clock = 5
  /\ authUid = NoSession
  /\ InitClient

\* A booking made before, so that the admin's lists have rows to show.
SeedBookings ==
  {[id |-> 3, user_id |-> "u1", car_id |-> 1, start_date |-> 0,
    end_date |-> 1, total_price |-> 50, status |-> "pending",
    created_at |-> 3]}

\* The browser may hold a session from an earlier visit.
InitAdmin ==
  /\ user_roles = SeedRoles
  /\ cars = SeedCars
  /\ bookings = SeedBookings
  /\ clock = 4
  /\ authUid \in {NoSession, "u1", "adm"}
  /\ InitClient

\* Bookings of three identities, u1's the older one.
BookingPool ==
  SeedBookings \cup
  {[id |-> 4, user_id |-> "adm", car_id |-> 1, start_date |-> 1,
    end_date |-> 3, total_price |-> 100, status |-> "confirmed",
    created_at |-> 4],
   [id |-> 5, user_id |-> "u1", car_id |-> 2, start_date |-> 2,
    end_date |-> 3, total_price |-> 75, status |-> "cancelled",
    created_at |-> 5]}

InitBookings ==
  /\ user_roles = SeedRoles
  /\ cars = SeedCars
  /\ bookings = BookingPool
  /\ clock = 6
  /\ authUid \in {NoSession, "u1", "adm"}
  /\ InitClient

\* Only the administrator has an account yet.
InitSignup ==
  /\ auth_users = {"adm"}
  /\ profiles = {p \in SeedProfiles : p.id = "adm"}
  /\ user_roles = {r \in SeedRoles : r.user_id = "adm"}
  /\ cars = SeedCars
  /\ bookings = {}
  /\ clock = 3
  /\ authUid = NoSession
  /\ InitViews

\* An admin is signed in; the store has one booking, in any status.
InitStatus ==
  /\ user_roles = SeedRoles
  /\ cars = SeedCars
  /\ \E status \in BookingStatuses :
       bookings = {[b EXCEPT !.status = status] : b \in SeedBookings}
  /\ clock = 4
  /\ authUid = "adm"
  /\ InitClient

\* A store that nobody writes to, and a signed-in user or admin.
InitReads ==
  /\ user_roles = SeedRoles
  /\ cars = CarPool
  /\ bookings = BookingPool
  /\ clock = 6
  /\ authUid \in Users
  /\ InitClient

\* A signed-in user, the seeded cars and a booking of the first of them.
InitIntegrity ==
  /\ user_roles = SeedRoles
  /\ cars = SeedCars
  /\ bookings = SeedBookings
  /\ clock = 4
  /\ authUid = "u1"
  /\ InitClient

\* A signed-in user, and the seeded store with its booked car in any status.
InitOverlap ==
  /\ user_roles = SeedRoles
  /\ \E status \in CarStatuses :
       cars = {IF c.id = 1 THEN [c EXCEPT !.status = status] ELSE c :
                 c \in SeedCars}
  /\ bookings = SeedBookings
  /\ clock = 4
  /\ authUid \in {"u1", "u2"}
  /\ InitClient

\* A visitor or a signed-in user, and the seeded store.
InitRecover ==
  /\ user_roles = SeedRoles
  /\ cars = SeedCars
  /\ bookings = SeedBookings
  /\ clock = 4
  /\ authUid \in {NoSession, "u1"}
  /\ InitClient

\* The booking view, the session provider and the store.
NextDetail ==
  \/ SignIn
  \/ SignOut
  \/ OpenDetail
  \/ DetailSession
  \/ FetchCarDone
  \/ SelectStartDate
  \/ SelectEndDate
  \/ handleBooking
  \/ BookingDone
  \/ StoreExec
  \/ StoreFail

SpecDetail == Init /\ [][NextDetail]_vars

\* The store under the requests of arbitrary clients.
NextStore ==
  \/ DirectInsertBooking
  \/ DirectUpdateBooking
  \/ DirectDeleteBooking
  \/ DirectSelectBookings
  \/ DirectInsertCar
  \/ DirectUpdateCar
  \/ DirectDeleteCar
  \/ DirectInsertRole
  \/ DirectDeleteRole

SpecStore == Init /\ [][NextStore]_vars

\* The catalog, over every table of cars of the pool.
NextCatalog ==
  \/ OpenCatalog
  \/ LeaveCatalog
  \/ CatalogFetchDone
  \/ SetTypeFilter
  \/ StoreExec
  \/ StoreFail
  \/ DropAnswer

SpecCatalog == InitCatalog /\ [][NextCatalog]_vars

\* The admin view, the session provider and the store.
NextAdmin ==
  \/ SignIn
  \/ SignOut
  \/ OpenAdmin
  \/ AdminSession
  \/ CheckAdminDone
  \/ AdminFetchCarsDone
  \/ AdminFetchBookingsDone
  \/ handleDeleteCar
  \/ DeleteCarDone
  \/ handleAddCar
  \/ AddCarDone
  \/ StoreExec
  \/ StoreFail

SpecAdmin == InitAdmin /\ [][NextAdmin]_vars

\* The whole admin view, the status select of a listed booking included.  The
\* store refuses the view's fetchBookings, so no booking is ever listed and
\* the select's two actions have no state to fire in.
NextDashboard ==
  \/ NextAdmin
  \/ updateBookingStatus
  \/ UpdateStatusDone

SpecDashboard == InitAdmin /\ [][NextDashboard]_vars

NoBookingListed == aBookings = <<>>

\* An admin at the dashboard while the catalog is browsed.
InitInventory == InitAdmin /\ authUid = "adm"

NextInventory ==
  \/ OpenAdmin
  \/ AdminSession
  \/ CheckAdminDone
  \/ AdminFetchCarsDone
  \/ AdminFetchBookingsDone
  \/ handleDeleteCar
  \/ DeleteCarDone
  \/ handleAddCar
  \/ AddCarDone
  \/ OpenCatalog
  \/ LeaveCatalog
  \/ CatalogFetchDone
  \/ StoreExec
  \/ StoreFail
  \/ DropAnswer

SpecInventory == InitInventory /\ [][NextInventory]_vars

\* The bookings view, the session provider and the store.
NextBookings ==
  \/ SignIn
  \/ SignOut
  \/ OpenBookings
  \/ BookingsSession
  \/ BookingsFetchDone
  \/ browseCars
  \/ StoreExec
  \/ StoreFail
  \/ DropAnswer

SpecBookings == InitBookings /\ [][NextBookings]_vars

\* The car detail view of a user while cars are deleted from another tab.
NextIntegrity ==
  \/ OpenDetail
  \/ DetailSession
  \/ FetchCarDone
  \/ SelectStartDate
  \/ SelectEndDate
  \/ handleBooking
  \/ BookingDone
  \/ OtherTabDeletesCar
  \/ DirectMoveBooking
  \/ StoreExec
  \/ StoreFail

SpecIntegrity == InitIntegrity /\ [][NextIntegrity]_vars

\* The car detail view of a user over cars that are booked already.
NextOverlap ==
  \/ OpenDetail
  \/ DetailSession
  \/ FetchCarDone
  \/ SelectStartDate
  \/ SelectEndDate
  \/ handleBooking
  \/ BookingDone
  \/ StoreExec
  \/ StoreFail

SpecOverlap == InitOverlap /\ [][NextOverlap]_vars

\* The router shows one page at a time: a view is opened while the other is
\* not mounted.
RouteToDetail == ~bMounted /\ OpenDetail
RouteToBookings == ~dMounted /\ OpenBookings

\* The car detail view and the bookings view of one browser tab.  Every
\* request is answered or fails, and the continuation of an answered request
\* runs.
NextRecover ==
  \/ RouteToDetail
  \/ DetailSession
  \/ FetchCarDone
  \/ SelectStartDate
  \/ SelectEndDate
  \/ handleBooking
  \/ BookingDone
  \/ RouteToBookings
  \/ BookingsSession
  \/ BookingsFetchDone
  \/ browseCars
  \/ StoreExec
  \/ StoreFail
  \/ DropAnswer

SpecRecover ==
  /\ InitRecover /\ [][NextRecover]_vars
  /\ WF_vars(StoreExec \/ StoreFail)
  /\ WF_vars(FetchCarDone)
  /\ WF_vars(BookingDone)
  /\ WF_vars(BookingsFetchDone)

\* The three views that list rows, over a store that does not change.
NextReads ==
  \/ OpenCatalog
  \/ LeaveCatalog
  \/ CatalogFetchDone
  \/ OpenBookings
  \/ BookingsSession
  \/ BookingsFetchDone
  \/ browseCars
  \/ OpenAdmin
  \/ AdminSession
  \/ CheckAdminDone
  \/ AdminFetchCarsDone
  \/ AdminFetchBookingsDone
  \/ StoreExec
  \/ DropAnswer

SpecReads == InitReads /\ [][NextReads]_vars

\* The admin view, an admin's requests to the API, and a store that answers
\* every request.
NextStatus ==
  \/ OpenAdmin
  \/ AdminSession
  \/ CheckAdminDone
  \/ AdminFetchCarsDone
  \/ AdminFetchBookingsDone
  \/ DirectUpdateStatus
  \/ StoreExec

SpecStatus == InitStatus /\ [][NextStatus]_vars

\* The same, from a booking that is completed.
InitCompleted ==
  /\ InitStatus
  /\ \A b \in bookings : b.status = "completed"

SpecCompleted == InitCompleted /\ [][NextStatus]_vars

\* Signups, and the requests of arbitrary clients on roles and profiles.
NextSignup ==
  \/ SignUp
  \/ DirectGrantRole
  \/ DirectUpdateRole
  \/ DirectDeleteRole
  \/ DirectInsertProfile
  \/ DirectUpdateProfile
  \/ DirectDeleteProfile

SpecSignup == InitSignup /\ [][NextSignup]_vars


\* ------------------------------------------------------------------ claims
\* The insert requests a step sends from handleBooking, and the rows a step
\* adds to bookings.
SentBookings == {m \in net' \ net : m.kind = "handleBooking" /\ m.phase = "req"}
NewBookings == bookings' \ bookings

\* The least whole number of days that covers a span of h hours.
WholeDays(h) ==
  CHOOSE n \in 0..(MaxDay + 2) :
    n * HoursPerDay >= h /\ (n - 1) * HoursPerDay < h

\* The stored row is the row of a request in flight, as sent.
StoredAsSent(b) ==
  \E m \in net :
    /\ m.kind = "handleBooking" /\ m.phase = "req"
    /\ b.user_id = m.a.row.user_id
    /\ b.car_id = m.a.row.car_id
    /\ b.start_date = m.a.row.start_date
    /\ b.end_date = m.a.row.end_date
    /\ b.total_price = m.a.row.total_price
    /\ b.status = m.a.row.status

\* C1: the total_price handleBooking sends, and the store then inserts
\* unchanged, is the fetched car's price_per_day times the least whole number
\* of days covering endDate - startDate, for every end after start.
C1_TotalPrice ==
  [][/\ \A m \in SentBookings :
          /\ endDate > startDate
          /\ m.a.row.total_price =
               dCar.price_per_day * WholeDays(endDate - startDate)
     /\ \A b \in NewBookings : StoredAsSent(b)]_vars

\* A one-night booking over the 25-hour day is stored at two days' price.
C1_Witness ==
  \E b \in bookings : \E c \in cars :
    /\ c.id = b.car_id
    /\ b.start_date = FallBackDay /\ b.end_date = FallBackDay + 1
    /\ b.total_price = 2 * c.price_per_day

\* C2: with no session, a missing date or end <= start, no step sends an
\* insert, and handleBooking only notifies: store, requests and flags stay.
BadBookingInput ==
  \/ dSession = NoSession
  \/ startDate = NoDate
  \/ endDate = NoDate
  \/ endDate <= startDate

BookingErrors ==
  {"Please sign in to book a car", "Please select start and end dates",
   "End date must be after start date"}

C2_AbortedBeforeRequest ==
  [][BadBookingInput =>
       /\ SentBookings = {}
       /\ handleBooking =>
            /\ toast' \in BookingErrors
            /\ UNCHANGED <<storeVars, nreq, dBooking>>
            /\ \A m \in net' : \E n \in net : n.id = m.id]_vars

\* End equal to start was rejected and nothing was sent.
C2_Witness ==
  /\ toast = "End date must be after start date"
  /\ startDate # NoDate /\ endDate = startDate
  /\ net = {} /\ bookings = {} /\ ~dBooking

\* C3: a booking sent by handleBooking carries status pending and the user
\* of the view's session, and is stored as sent; two days at 50 cost 100.
C3_PendingOwnBooking ==
  [][/\ \A m \in SentBookings :
          /\ dSession \in Users
          /\ m.a.row.user_id = dSession
          /\ m.a.row.status = "pending"
     /\ \A b \in NewBookings :
          /\ StoredAsSent(b)
          /\ b.status = "pending"
          /\ (b.car_id = 1 /\ b.start_date = 0 /\ b.end_date = 2)
               => b.total_price = 100]_vars

C3_Witness ==
  \E b \in bookings :
    /\ b.user_id = "u1" /\ b.car_id = 1
    /\ b.start_date = 0 /\ b.end_date = 2
    /\ b.total_price = 100 /\ b.status = "pending"


\* C4: every booking row of the store has end_date strictly after
\* start_date, whatever requests the policies let through.
C4_EndAfterStart == \A b \in bookings : b.end_date > b.start_date

\* C5: the status of a stored booking changes only in a step that executes
\* the request of an identity holding the admin role.
C5_StatusOnlyByAdmin ==
  [][\A b \in bookings : \A c \in bookings' :
       (c.id = b.id /\ c.status # b.status) => has_role(reply'.uid, "admin")]_vars

\* The store executes a request on cars of an identity without the admin
\* role.
NonAdminWrite(op) ==
  /\ reply'.n = reply.n + 1
  /\ ~has_role(reply'.uid, "admin")
  /\ reply'.table = "cars" /\ reply'.op = op

\* C6, as claimed: an insert, update or delete on cars requested by an
\* identity without the admin role is rejected and leaves the cars table
\* unchanged.
C6_NonAdminWriteRejected ==
  [][\A op \in {"insert", "update", "delete"} :
       NonAdminWrite(op) => (~reply'.ok /\ cars' = cars)]_vars

\* C6, amended: a request of an identity without the admin role leaves the
\* cars table as it is; its insert on cars is rejected, its update or delete
\* on cars matches no row and is answered without error.
C6_CarsOnlyByAdmin ==
  [][/\ ~has_role(reply'.uid, "admin") => cars' = cars
     /\ NonAdminWrite("insert") => ~reply'.ok
     /\ \A op \in {"update", "delete"} :
          NonAdminWrite(op) => (reply'.ok /\ reply'.rows = <<>>)]_vars

\* A non-admin asked to delete a car and both cars are still there.
C6_Witness ==
  /\ reply.uid = "u1" /\ ~has_role("u1", "admin")
  /\ reply.table = "cars" /\ reply.op = "delete"
  /\ cars = SeedCars

\* C7: a select on bookings by an identity without the admin role returns
\* exactly the rows whose user_id is that identity, and every row such an
\* identity adds or rewrites carries its own user_id; an accepted insert
\* added such a row.
C7_OwnBookingsOnly ==
  [][(~has_role(reply'.uid, "admin") /\ reply'.table = "bookings") =>
       /\ (reply'.op = "select" /\ reply'.ok) =>
            SeqToSet(reply'.rows) = {b \in bookings : b.user_id = reply'.uid}
       /\ \A b \in NewBookings : b.user_id = reply'.uid
       /\ (reply'.op = "insert" /\ reply'.ok) => NewBookings # {}
       /\ (reply'.op = "insert" /\ ~reply'.ok) => NewBookings = {}]_vars

\* u1 read its bookings while u2 had one too.
C7_Witness ==
  /\ reply.uid = "u1" /\ ~has_role("u1", "admin")
  /\ reply.table = "bookings" /\ reply.op = "select"
  /\ reply.rows # <<>>
  /\ \E b \in bookings : b.user_id = "u2"


\* C9: what the catalog displays is part of what it fetched: all of it under
\* "all", else exactly the fetched cars of the selected type; and every
\* fetched car had status available.
C9_CatalogFilter ==
  /\ SeqToSet(filteredCars) \subseteq SeqToSet(cCars)
  /\ typeFilter = "all" => filteredCars = cCars
  /\ typeFilter # "all" =>
       /\ SeqToSet(filteredCars) = {c \in SeqToSet(cCars) : c.type = typeFilter}
       /\ Len(filteredCars) = Cardinality(SeqToSet(filteredCars))
  /\ \A c \in SeqToSet(cCars) : c.status = "available"

\* Three cars of two types were fetched, two are displayed, and the store
\* also holds a car that is not available.
C9_Witness ==
  /\ Len(cCars) = 3 /\ Len(filteredCars) = 2
  /\ typeFilter = "sedan"
  /\ \E c \in cars : c.status # "available"

\* What the admin view has in flight besides the role probe.
AdminDataRequests ==
  {m \in net : m.view = "admin" /\ m.kind # "checkAdmin"}

CarIds(list) == {list[i].id : i \in 1..Len(list)}

\* C8: the admin view opened without a session, or with a session whose
\* identity has no admin row in user_roles (also when the role probe failed),
\* navigates away, never sets isAdmin, never issues fetchCars or fetchBookings
\* and keeps both lists empty; the dashboard is shown only after the probe
\* returned an admin row.
C8_AdminOnly ==
  [][/\ \* checkAdmin resolved the session: none navigates to /auth
        (aPc = "getSession" /\ aPc' # "getSession") =>
          IF authUid = NoSession
          THEN aPc' = "left" /\ aNav' = "/auth" /\ aReq' = aReq
          ELSE aPc' = "probe"
     /\ \* the probe was answered: anything but an admin row of the session's
        \* identity navigates to /
        (aPc = "probe" /\ aPc' # "probe") =>
          IF \E m \in net \ net' :
                /\ m.kind = "checkAdmin" /\ m.ok /\ m.rows # <<>>
                /\ m.rows[1] = [user_id |-> aSession, role |-> "admin"]
          THEN aPc' = "ready" /\ isAdmin'
          ELSE /\ aPc' = "left" /\ aNav' = "/"
               /\ toast' = "Access denied: Admin only"
               /\ aReq' = aReq
     /\ \* a view that navigated away never was admin and holds nothing
        (aPc' = "left" <=> aNav' # "")
     /\ (aPc' # "ready") =>
          /\ ~isAdmin' /\ aLoading'
          /\ aCars' = <<>> /\ aBookings' = <<>>
          /\ AdminDataRequests' = {}
     /\ \* admin only with an admin row in user_roles
        (isAdmin' \/ ~aLoading' \/ AdminDataRequests' # {}) =>
          /\ aPc' = "ready"
          /\ aSession' # NoSession
          /\ has_role(aSession', "admin")
    ]_vars

\* A signed-in user without the admin role was sent away, while the store
\* has cars and bookings the dashboard would have listed.
C8_Witness ==
  /\ aPc = "left" /\ aNav = "/"
  /\ aSession = "u1" /\ ~has_role("u1", "admin")
  /\ toast = "Access denied: Admin only"
  /\ ~isAdmin /\ aCars = <<>> /\ aBookings = <<>>
  /\ cars # {} /\ bookings # {}

\* The deletions handleDeleteCar reported successful whose request was an
\* admin's, and whether the fetchCars it then issued has completed.
AdminDeleted == {d \in aDeleted : has_role(d.uid, "admin")}
FetchCompleted(d) == \A m \in net : m.id # d.fetch

C10_AbsentFromStore ==
  \A d \in AdminDeleted : d.id \notin {c.id : c \in cars}

C10_AbsentFromAdminList ==
  \A d \in AdminDeleted : FetchCompleted(d) => d.id \notin CarIds(aCars)

C10_AbsentFromCatalog ==
  \A d \in AdminDeleted :
    \A m \in net :
      (m.view = "catalog" /\ m.phase = "resp" /\ m.id > d.fetch)
        => d.id \notin CarIds(m.rows)

\* C10: after an admin's handleDeleteCar(id) succeeded the car is absent from
\* the store, the admin view's list no longer contains id once the fetch that
\* follows has completed, and no catalog fetch issued later returns id.
C10_DeletedCarGone ==
  /\ C10_AbsentFromStore
  /\ C10_AbsentFromAdminList
  /\ C10_AbsentFromCatalog

\* The bookings other identities have in the store.
BookingsOfOthers(u) == {b \in bookings : b.user_id # u}

\* C11: the bookings view only ever displays rows whose user_id is the
\* identity of a session it received, also when that identity is an admin,
\* who may read every booking; without a session it navigates to /auth and
\* fetches nothing.
C11_OwnBookingsShown ==
  [][/\ \A i \in 1..Len(bBookings') : bBookings'[i].user_id \in bSeen'
     /\ \* a session was delivered to the view, which was not left for /cars
        (bMounted /\ bAuthQ' # bAuthQ /\ Len(bAuthQ') < Len(bAuthQ)
         /\ bNav' # "/cars") =>
          IF bMounted'
          THEN bSession' # NoSession /\ nreq' = nreq + 1
          ELSE /\ bNav' = "/auth"
               /\ nreq' = nreq
               /\ \A m \in net' : m.view # "bookings"
     /\ \* only a view that holds a session has a fetch in flight
        \A m \in net' : m.view = "bookings" => bSession' # NoSession
    ]_vars

\* An admin sees its own booking only, while the store holds bookings of
\* others that the policies would let it read.
C11_Witness ==
  /\ bMounted /\ ~bLoading
  /\ bSession = "adm" /\ has_role("adm", "admin")
  /\ Len(bBookings) = 1 /\ bBookings[1].user_id = "adm"
  /\ BookingsOfOthers("adm") # {}

\* The answers to fetches that a step hands to the view that awaits them.
FetchKinds == {"fetchCar", "fetchCars", "fetchBookings"}
FetchesHandled ==
  {m \in net : /\ m.phase = "resp" /\ m.view # "gone" /\ m.kind \in FetchKinds
                /\ \A n \in net' : n.id # m.id}

\* C12: in every view that fetches rows, a fetch answered with an error
\* surfaces a notification.
C12_FetchErrorNotified ==
  [][\A m \in FetchesHandled :
       ~m.ok => toast' \in {"Failed to load car details", "Failed to load cars",
                            "Failed to load bookings", "Failed to fetch cars",
                            "Failed to fetch bookings"}]_vars

\* The list a view shows for the rows of a fetch, after the step.
ListShown(m) ==
  CASE m.view = "catalog" -> cCars'
    [] m.view = "bookings" -> bBookings'
    [] m.view = "admin" /\ m.kind = "fetchCars" -> aCars'
    [] m.view = "admin" /\ m.kind = "fetchBookings" -> aBookings'
    [] OTHER -> <<>>

\* C13: after a fetch failed the list the view shows is empty, whatever an
\* earlier fetch had put there.
C13_EmptyAfterFailedFetch ==
  [][\A m \in FetchesHandled : ~m.ok => ListShown(m) = <<>>]_vars

ProfilesOf(u) == {p \in profiles : p.id = u}
RolesOf(u) == {r.role : r \in {x \in user_roles : x.user_id = u}}

\* C14: at signup an identity gets exactly one profile and the role user,
\* never admin; afterwards an admin row is added to user_roles only by the
\* request of an identity that is admin already.
C14_SignupRoles ==
  [][/\ \A u \in auth_users' \ auth_users :
          /\ Cardinality(ProfilesOf(u)') = 1
          /\ RolesOf(u)' = {"user"}
     /\ \A u \in auth_users' : Cardinality(ProfilesOf(u)') = 1
     /\ \A r \in user_roles' \ user_roles :
          r.role = "admin" =>
            /\ reply'.n = reply.n + 1
            /\ has_role(reply'.uid, "admin")
    ]_vars

\* An identity that signed up asked for the admin role and was refused.
C14_Witness ==
  /\ "u1" \in auth_users
  /\ reply.uid = "u1" /\ reply.table = "user_roles" /\ reply.op = "insert"
  /\ ~reply.ok
  /\ RolesOf("u1") = {"user"}
  /\ Cardinality(ProfilesOf("u1")) = 1

\* The requests of a view that it still waits for.
Outstanding(view) == {m \in net : m.view = view}

\* The store executes, for an admin, the request that
\* updateBookingStatus(id, status) sends, and the statuses of the stored
\* bookings.
AdminStatusUpdate(id, status) == Direct("adm", StatusUpdate(id, status))
StoredStatus(set) == {b.status : b \in set}

\* C15: updateBookingStatus by an admin sets a booking to any of the five
\* statuses from any current status: the store rejects no transition (not
\* completed -> pending either), the row then holds the status asked for,
\* and the stored status stays one of the five.
C15_AnyStatusTransition ==
  [][/\ \A b \in bookings : \A status \in BookingStatuses :
          AdminStatusUpdate(b.id, status) =>
            /\ reply'.ok
            /\ bookings' = (bookings \ {b}) \cup {[b EXCEPT !.status = status]}
     /\ \A b \in bookings' : b.status \in BookingStatuses
    ]_vars

\* The completed booking is pending again: the first update of an admin was
\* answered without error.
C15_Witness ==
  /\ reply.n = 1 /\ reply.uid = "adm" /\ reply.op = "update" /\ reply.ok
  /\ StoredStatus(bookings) = {"pending"}

\* The rows of the fetches of one kind that were answered, and a list in
\* strictly descending order of creation.
RowsFetched(kind, a) ==
  {m.rows : m \in {x \in net : /\ x.kind = kind /\ x.a = a
                                /\ x.phase = "resp" /\ x.ok}}
NewestFirst(list) ==
  \A i \in 1..Len(list) : \A k \in 1..Len(list) :
    i < k => list[i].created_at > list[k].created_at

\* C16: with no write to the store in between, two fetches of the same view
\* give the same rows in the same order, newest first (catalog, bookings
\* view, admin view).
C16_SameFetchSameList ==
  /\ \A m \in net : (m.phase = "resp" /\ m.kind \in FetchKinds) =>
       /\ NewestFirst(m.rows)
       /\ m.ok => RowsFetched(m.kind, m.a) = {m.rows}
       /\ ~m.ok => m.rows = <<>>
  /\ NewestFirst(cCars) /\ NewestFirst(bBookings)
  /\ NewestFirst(aCars) /\ NewestFirst(aBookings)
  /\ (cMounted /\ ~cLoading) =>
       \A m \in net : (m.kind = "fetchCars" /\ m.phase = "resp"
                       /\ "status" \in DOMAIN m.a.eq) => m.rows = cCars
  /\ (bMounted /\ ~bLoading) =>
       \A m \in Answered("bookings", "fetchBookings") : m.rows = bBookings
  /\ (aCars # <<>>) =>
       SeqToSet(aCars) = cars
  /\ (aBookings # <<>>) =>
       SeqToSet(aBookings) = bookings

\* The catalog shows two cars or more from its second fetch while the answer
\* to its first is still around, and the bookings view shows two bookings
\* with the answer to a second fetch at hand.
C16_Witness ==
  \/ /\ cMounted /\ ~cLoading /\ Len(cCars) >= 2
     /\ \E m \in net : m.kind = "fetchCars" /\ m.view = "gone" /\ m.phase = "resp"
  \/ /\ bMounted /\ ~bLoading /\ Len(bBookings) >= 2
     /\ Answered("bookings", "fetchBookings") # {}

\* The bookings view is at rest: mounted, every notification handled, every
\* fetch answered and handled, and none of them failed.
BookingsAtRest ==
  /\ bMounted /\ ~bLoading
  /\ bAuthQ = <<>>
  /\ Pending("bookings", "fetchBookings") = {}
  /\ toast # "Failed to load bookings"

\* C17: once every fetch of the bookings view has completed, the list shown
\* is the bookings of the user of the latest session notification, whatever
\* the order of the answers.
C17_LatestSessionShown ==
  BookingsAtRest =>
    SeqToSet(bBookings) = {b \in bookings : b.user_id = bSession}

\* C18: at every moment each view waits for at most one request to the
\* store.
C18_OneRequestPerView ==
  \A view \in {"detail", "catalog", "bookings", "admin"} :
    Cardinality(Outstanding(view)) <= 1

\* C19: two admin sessions update the status of the same booking: the
\* store applies the two in some order, and the one applied second is
\* answered without error, whatever status its writer still displayed, and
\* leaves its value in the row: the update applied last decides.
C19_LastWriteWins ==
  [][(reply.n >= 1 /\ reply.op = "update" /\ reply.ok) =>
       \A b \in bookings : \A status \in BookingStatuses :
         AdminStatusUpdate(b.id, status) =>
           /\ reply'.ok
           /\ StoredStatus(bookings') = {status}
    ]_vars

\* Two updates were applied, the second answered without error and its
\* value, cancelled, in the row, while the dashboard shows no booking.
C19_Witness ==
  /\ reply.n = 2 /\ reply.uid = "adm" /\ reply.op = "update" /\ reply.ok
  /\ StoredStatus(bookings) = {"cancelled"}
  /\ DashboardShown /\ aBookings = <<>>

\* A view holds the answer to a request that failed, and the failed answers
\* that a step handles.
FailedAnswer(view, kind) == \E m \in Answered(view, kind) : ~m.ok
FailuresHandled ==
  {m \in net : /\ m.phase = "resp" /\ ~m.ok /\ m.view # "gone"
               /\ \A n \in net' : n.id # m.id}

\* C20: after a failed fetch or a failed booking insert the view is usable
\* again: the loading flag becomes false, the booking flag is reset (the
\* Book button is enabled again), and no request is sent again on its own.
C20_InteractiveAfterFailure ==
  /\ FailedAnswer("detail", "fetchCar") ~> (~dLoading \/ ~dMounted)
  /\ FailedAnswer("detail", "handleBooking") ~> (~dBooking \/ ~dMounted)
  /\ FailedAnswer("bookings", "fetchBookings") ~> (~bLoading \/ ~bMounted)
  /\ [][\A m \in FailuresHandled :
          /\ nreq' = nreq /\ net' = net \ {m}
          /\ m.kind = "fetchCar" => dMounted' /\ ~dLoading'
          /\ m.kind = "handleBooking" => FormShown' /\ ~dBooking'
          /\ m.kind = "fetchBookings" => bMounted' /\ ~bLoading'
    ]_vars

\* The insert failed and the form is back with its button enabled.
C20_Witness ==
  /\ FormShown /\ ~dBooking
  /\ toast = "Failed to fetch"
  /\ Outstanding("detail") = {}

\* The booking inserts of the detail view that the store executes in a
\* step, the cars a step deletes, and the bookings without a car.
InsertsExecuted ==
  {<<m, n>> \in net \X net' :
     /\ m.kind = "handleBooking" /\ m.phase = "req"
     /\ n.id = m.id /\ n.phase = "resp" /\ n.msg # "Failed to fetch"}
CarsDeleted == {c.id : c \in cars} \ {c.id : c \in cars'}
Dangling(bs, cs) == {b \in bs : \A c \in cs : c.id # b.car_id}

\* C21: every booking references a car of the store: deleting a car deletes
\* its bookings and no others, and the insert of a booking for a car that
\* was deleted after the detail view loaded it is rejected, stores nothing
\* and is notified as an error.
C21_BookingsReferenceCars ==
  /\ [](Dangling(bookings, cars) = {})
  /\ [][/\ bookings' \ bookings = {} =>
            bookings' = {b \in bookings : b.car_id \notin CarsDeleted}
        /\ \A x \in InsertsExecuted :
             x[1].a.row.car_id \notin {c.id : c \in cars} =>
               ~x[2].ok /\ x[2].msg # "" /\ bookings' = bookings
        /\ \A m \in Answered("detail", "handleBooking") :
             (~m.ok /\ m \notin net') =>
               toast' = m.msg /\ dNav' = dNav /\ ~dBooking'
       ]_vars

\* The detail view still shows a car that another tab has deleted, the
\* booking of that car is gone with it, and the insert was answered with the
\* store's error, now on screen.
C21_Witness ==
  /\ FormShown /\ ~dBooking
  /\ Dangling({[car_id |-> dCar.id]}, cars) # {}
  /\ bookings = {}
  /\ toast = "violates foreign key or unique constraint"

\* Two bookings of one car whose date ranges have a day in common.
Overlapping(b, o) ==
  /\ b.id # o.id /\ b.car_id = o.car_id
  /\ b.start_date < o.end_date /\ o.start_date < b.end_date

\* C22: a booking is created whatever the car's status and whatever
\* bookings the car has: the insert of a signed-in user for a car of the
\* store, with the end after the start, is answered without error and adds
\* its row to the bookings already stored.
C22_NoAvailabilityCheck ==
  [][\A x \in InsertsExecuted :
       LET row == x[1].a.row
       IN (/\ x[1].uid \in Users /\ row.user_id = x[1].uid
           /\ \E c \in cars : c.id = row.car_id
           /\ row.end_date > row.start_date) =>
            /\ x[2].ok
            /\ Cardinality(bookings') = Cardinality(bookings) + 1
            /\ bookings \subseteq bookings'
            /\ \A b \in bookings' \ bookings :
                 /\ b.car_id = row.car_id /\ b.user_id = row.user_id
                 /\ b.start_date = row.start_date /\ b.end_date = row.end_date
    ]_vars

\* A car in maintenance has two bookings with overlapping dates, the second
\* made from the detail view.
C22_Witness ==
  /\ \E c \in cars : c.id = 1 /\ c.status = "maintenance"
  /\ \E b \in bookings : \E o \in SeedBookings :
       o \in bookings /\ Overlapping(b, o)
  /\ dNav = "/bookings"

====
